---- MODULE Spec2Model ----
(***************************************************************************)
(* Model of server.py of bay-wheels-mcp: the two tool operations           *)
(* find_nearest_bike and find_nearest_dock_spaces, their feed resolver     *)
(* (get_feed_url), feed fetcher (fetch_feed) and the join/filter/rank      *)
(* pass over the fetched GBFS documents.                                   *)
(*                                                                         *)
(* Python values are represented as follows.                               *)
(*   dict        a function whose DOMAIN is the set of keys                *)
(*   list        a sequence                                                *)
(*   str label   a sequence of one-character strings (so that lower() and  *)
(*               the substring test "x in s" are computed, not assumed)    *)
(*   None        PyNone                                                    *)
(*   text        a sequence of pieces (strings, numbers, nested texts), as *)
(*               an f-string assembles it                                  *)
(*   exception   a record [type, msg]                                      *)
(*   coordinates small integers on a grid; geodesic() is the grid          *)
(*               distance scaled to centimetres                            *)
(***************************************************************************)
EXTENDS Integers, Sequences, FiniteSets, TLC

VARIABLES
    tool,        \* which operation was invoked
    latitude, longitude, count, bike_type,   \* its arguments
    pc,          \* "resolve", "fetch" (awaiting gather), "select", "done"
    urls,        \* the feed URLs resolved so far, in order
    discovery,   \* HTTP status of each discovery response so far (0: no response)
    fetches,     \* per feed: the state of its fetch_feed task, the status and document
    candidates,  \* the list  candidates  of the operation, before it is sorted
    result,      \* the text returned by the operation, <<>> while it runs
    raised       \* type of an exception that left the operation, "None" if none

vars == <<tool, latitude, longitude, count, bike_type,
          pc, urls, discovery, fetches, candidates, result, raised>>

args == <<tool, latitude, longitude, count, bike_type>>

(***************************************************************************)
(* Bounds of the model.                                                    *)
(***************************************************************************)
\* the count argument ranges over 0..MaxCount
MaxCount == 2
\* the bike counts published by station_status range over 0..MaxAvail
MaxAvail == 2
\* the dock counts published by station_status range over 0..MaxDocks
MaxDocks == 3

(***************************************************************************)
(* Python helpers.                                                         *)
(***************************************************************************)
PyNone == <<"None">>

Has(d, k) == k \in DOMAIN d

Get(d, k, default) == IF k \in DOMAIN d THEN d[k] ELSE default

Max(S) == CHOOSE x \in S : \A y \in S : y <= x

Abs(x) == IF x < 0 THEN -x ELSE x

UpperAlpha == <<"A","B","C","D","E","F","G","H","I","J","K","L","M",
                "N","O","P","Q","R","S","T","U","V","W","X","Y","Z">>

LowerAlpha == <<"a","b","c","d","e","f","g","h","i","j","k","l","m",
                "n","o","p","q","r","s","t","u","v","w","x","y","z">>

\* str.lower(), character by character
LowerChar(c) ==
    IF \E i \in 1..Len(UpperAlpha) : UpperAlpha[i] = c
    THEN LowerAlpha[CHOOSE i \in 1..Len(UpperAlpha) : UpperAlpha[i] = c]
    ELSE c

Lower(s) == [i \in 1..Len(s) |-> LowerChar(s[i])]

\* the substring test  sub in s
Contains(sub, s) ==
    \E i \in 1..(Len(s) - Len(sub) + 1) : SubSeq(s, i, i + Len(sub) - 1) = sub

\* truth value of an Optional[str]
Truthy(s) == s # PyNone /\ s # <<>>

(***************************************************************************)
(* geopy.distance.geodesic(a, b).meters on the grid, in centimetres, and   *)
(* the "{:.1f}" rendering of a distance: <<metres, tenths>>.               *)
(***************************************************************************)
\* one grid step is 123.45 m
geodesic(lat1, lon1, lat2, lon2) == 12345 * (Abs(lat1 - lat2) + Abs(lon1 - lon2))

Format1f(cm) == LET t == (cm + 5) \div 10 IN <<t \div 10, t % 10>>

(***************************************************************************)
(* {s["station_id"]: s for s in recs}: the keys in order of first          *)
(* insertion, and for each key the last record that carries it.            *)
(***************************************************************************)
RECURSIVE DictKeys(_)
DictKeys(recs) ==
    IF recs = <<>> THEN <<>>
    ELSE LET front == DictKeys(SubSeq(recs, 1, Len(recs) - 1))
             k     == recs[Len(recs)]["station_id"]
         IN  IF \E i \in 1..Len(front) : front[i] = k THEN front ELSE Append(front, k)

DictHas(recs, k) == \E i \in 1..Len(recs) : recs[i]["station_id"] = k

DictGet(recs, k) == recs[Max({i \in 1..Len(recs) : recs[i]["station_id"] = k})]

(***************************************************************************)
(* find_nearest_bike: the mapping of the label to a vehicle_type_id.       *)
(***************************************************************************)
sELECTRIC == <<"e","l","e","c","t","r","i","c">>
sEBIKE    == <<"e","b","i","k","e">>
sCLASSIC  == <<"c","l","a","s","s","i","c">>
sSTANDARD == <<"s","t","a","n","d","a","r","d">>

\* the same with the two identifiers swapped
target_type_id_swapped(bt) ==
    IF Truthy(bt)
    THEN IF Contains(sELECTRIC, Lower(bt)) \/ Contains(sEBIKE, Lower(bt)) THEN "1"
         ELSE IF Contains(sCLASSIC, Lower(bt)) \/ Contains(sSTANDARD, Lower(bt)) THEN "2"
         ELSE "None"
    ELSE "None"

target_type_id(bt) ==
    IF Truthy(bt)
    THEN IF Contains(sELECTRIC, Lower(bt)) \/ Contains(sEBIKE, Lower(bt)) THEN "2"
         ELSE IF Contains(sCLASSIC, Lower(bt)) \/ Contains(sSTANDARD, Lower(bt)) THEN "1"
         ELSE "None"
    ELSE "None"

\* the sum over status["vehicle_types_available"] of the matching counts
RECURSIVE TypeSum(_, _)
TypeSum(vta, target) ==
    IF vta = <<>> THEN 0
    ELSE (IF Get(Head(vta), "vehicle_type_id", "None") = target
          THEN Get(Head(vta), "count", 0) ELSE 0) + TypeSum(Tail(vta), target)

available_count(status, target) ==
    IF target # "None"
    THEN IF Has(status, "vehicle_types_available")
         THEN TypeSum(status["vehicle_types_available"], target)
         ELSE 0
    ELSE Get(status, "num_bikes_available", 0)

StationCandidate(station, avail, lat, lon) ==
    [type      |-> "Station",
     name      |-> station["name"],
     distance  |-> geodesic(lat, lon, station["lat"], station["lon"]),
     available |-> avail,
     lat       |-> station["lat"],
     lon       |-> station["lon"]]

\* the same without the test of is_renting
RentingFlagIgnored(stats, station_id) == DictHas(stats, station_id)

\* not (if not status or not status.get("is_renting"): continue)
Renting(stats, station_id) ==
    /\ DictHas(stats, station_id)
    /\ Get(DictGet(stats, station_id), "is_renting", FALSE)

\* the loop over stations.items() of find_nearest_bike
RECURSIVE BikeStationLoop(_, _, _, _, _, _, _)
BikeStationLoop(keys, infos, stats, target, n, lat, lon) ==
    IF keys = <<>> THEN <<>>
    ELSE LET station_id == Head(keys)
             station    == DictGet(infos, station_id)
             rest       == BikeStationLoop(Tail(keys), infos, stats, target, n, lat, lon)
         IN  IF ~Renting(stats, station_id) THEN rest
             ELSE LET status == DictGet(stats, station_id)
                  IN  IF available_count(status, target) >= n
                      THEN <<StationCandidate(station, available_count(status, target),
                                              lat, lon)>> \o rest
                      ELSE rest

FreeBikeCandidate(bike, lat, lon) ==
    [type      |-> "Free Bike",
     name      |-> <<"Free Bike (", Get(bike, "bike_id", "unknown"), ")">>,
     distance  |-> geodesic(lat, lon, bike["lat"], bike["lon"]),
     available |-> 1,
     lat       |-> bike["lat"],
     lon       |-> bike["lon"]]

FreeBikePasses(bike, target) ==
    /\ ~(Get(bike, "is_reserved", FALSE) \/ Get(bike, "is_disabled", FALSE))
    /\ ~(target # "None" /\ Get(bike, "vehicle_type_id", "None") # target)

\* the loop over free_bikes of find_nearest_bike
RECURSIVE FreeBikeLoop(_, _, _, _)
FreeBikeLoop(bikes, target, lat, lon) ==
    IF bikes = <<>> THEN <<>>
    ELSE LET rest == FreeBikeLoop(Tail(bikes), target, lat, lon)
         IN  IF FreeBikePasses(Head(bikes), target)
             THEN <<FreeBikeCandidate(Head(bikes), lat, lon)>> \o rest
             ELSE rest

\* the same with  if count >= 1
ScanFreeBikesAtLeastOne(n) == n >= 1

\* if count == 1
ScanFreeBikes(n) == n = 1

BikeCandidates(infos, stats, bikes, lat, lon, n, bt) ==
    BikeStationLoop(DictKeys(infos), infos, stats, target_type_id(bt), n, lat, lon)
      \o (IF ScanFreeBikes(n) THEN FreeBikeLoop(bikes, target_type_id(bt), lat, lon)
          ELSE <<>>)

(***************************************************************************)
(* list.sort(key=lambda x: x["distance"]): a stable sort.                  *)
(***************************************************************************)
\* the same for a sort that is not stable: c goes before its equals
RECURSIVE InsertSortedUnstable(_, _)
InsertSortedUnstable(c, sorted) ==
    IF sorted = <<>> THEN <<c>>
    ELSE IF c["distance"] <= Head(sorted)["distance"] THEN <<c>> \o sorted
         ELSE <<Head(sorted)>> \o InsertSortedUnstable(c, Tail(sorted))

RECURSIVE InsertSorted(_, _)
InsertSorted(c, sorted) ==
    IF sorted = <<>> THEN <<c>>
    ELSE IF c["distance"] < Head(sorted)["distance"] THEN <<c>> \o sorted
         ELSE <<Head(sorted)>> \o InsertSorted(c, Tail(sorted))

RECURSIVE SortByDistance(_)
SortByDistance(cands) ==
    IF cands = <<>> THEN <<>>
    ELSE InsertSorted(cands[Len(cands)], SortByDistance(SubSeq(cands, 1, Len(cands) - 1)))

\* the same without the sort
NearestUnsorted(cands) == cands[1]

\* candidates.sort(key=...); nearest = candidates[0]
Nearest(cands) == SortByDistance(cands)[1]

(***************************************************************************)
(* find_nearest_dock_spaces: the loop over stations.items().               *)
(***************************************************************************)
DockCandidate(station, status, lat, lon) ==
    [name      |-> station["name"],
     distance  |-> geodesic(lat, lon, station["lat"], station["lon"]),
     available |-> status["num_docks_available"],
     lat       |-> station["lat"],
     lon       |-> station["lon"]]

\* the same without the test of is_returning
DockEligibleFlagIgnored(stats, station_id, n) ==
    /\ DictHas(stats, station_id)
    /\ Get(DictGet(stats, station_id), "num_docks_available", 0) >= n

\* lines 165-169: the station has a status, is returning, and has the docks
DockEligible(stats, station_id, n) ==
    /\ DictHas(stats, station_id)
    /\ Get(DictGet(stats, station_id), "is_returning", FALSE)
    /\ Get(DictGet(stats, station_id), "num_docks_available", 0) >= n

RECURSIVE DockStationLoop(_, _, _, _, _, _)
DockStationLoop(keys, infos, stats, n, lat, lon) ==
    IF keys = <<>> THEN <<>>
    ELSE LET station_id == Head(keys)
             station    == DictGet(infos, station_id)
             rest       == DockStationLoop(Tail(keys), infos, stats, n, lat, lon)
         IN  IF DockEligible(stats, station_id, n)
             THEN <<DockCandidate(station, DictGet(stats, station_id), lat, lon)>> \o rest
             ELSE rest

DockCandidates(infos, stats, lat, lon, n) ==
    DockStationLoop(DictKeys(infos), infos, stats, n, lat, lon)

(***************************************************************************)
(* Exceptions, and what the body of each operation evaluates to once the   *)
(* documents are in: [ret |-> text] or [exc |-> exception].                *)
(***************************************************************************)
KeyError(k) == [type |-> "KeyError", msg |-> <<"'", k, "'">>]

Returns(text) == [ret |-> text]

Raises(e) == [exc |-> e]

\* doc["data"][k], or the KeyError it raises
MissingKey(doc, k) ==
    IF ~Has(doc, "data") THEN "data"
    ELSE IF ~Has(doc["data"], k) THEN k
    ELSE "None"

NoBikes == <<"No bikes found matching criteria.">>

NoDocks == <<"No docks found with sufficient spaces.">>

FormatBike(nearest) ==
    <<"Nearest option: ", nearest["type"], " - ", nearest["name"],
      "\nDistance: ", Format1f(nearest["distance"]), " meters",
      "\nAvailable: ", nearest["available"],
      "\nLocation: ", nearest["lat"], ", ", nearest["lon"]>>

FormatDock(nearest) ==
    <<"Nearest dock with spaces: ", nearest["name"],
      "\nDistance: ", Format1f(nearest["distance"]), " meters",
      "\nSpaces Available: ", nearest["available"],
      "\nLocation: ", nearest["lat"], ", ", nearest["lon"]>>

\* lines 62-64 of find_nearest_bike: the KeyError they raise, if any
BikeKeyError(info, status, bikes) ==
    IF MissingKey(info, "stations") # "None" THEN MissingKey(info, "stations")
    ELSE IF MissingKey(status, "stations") # "None" THEN MissingKey(status, "stations")
    ELSE MissingKey(bikes, "bikes")

\* lines 66-123 of find_nearest_bike: the list candidates
BikeList(info, status, bikes, lat, lon, n, bt) ==
    IF BikeKeyError(info, status, bikes) # "None" THEN <<>>
    ELSE BikeCandidates(info["data"]["stations"], status["data"]["stations"],
                        bikes["data"]["bikes"], lat, lon, n, bt)

\* lines 62-135 of find_nearest_bike
BikeBody(info, status, bikes, lat, lon, n, bt) ==
    IF BikeKeyError(info, status, bikes) # "None"
    THEN Raises(KeyError(BikeKeyError(info, status, bikes)))
    ELSE LET cands == BikeList(info, status, bikes, lat, lon, n, bt)
         IN  IF cands = <<>> THEN Returns(NoBikes) ELSE Returns(FormatBike(Nearest(cands)))

\* lines 159-160 of find_nearest_dock_spaces: the KeyError they raise, if any
DockKeyError(info, status) ==
    IF MissingKey(info, "stations") # "None" THEN MissingKey(info, "stations")
    ELSE MissingKey(status, "stations")

\* lines 162-177 of find_nearest_dock_spaces: the list candidates
DockList(info, status, lat, lon, n) ==
    IF DockKeyError(info, status) # "None" THEN <<>>
    ELSE DockCandidates(info["data"]["stations"], status["data"]["stations"], lat, lon, n)

\* lines 159-188 of find_nearest_dock_spaces
DockBody(info, status, lat, lon, n) ==
    IF DockKeyError(info, status) # "None"
    THEN Raises(KeyError(DockKeyError(info, status)))
    ELSE LET cands == DockList(info, status, lat, lon, n)
         IN  IF cands = <<>> THEN Returns(NoDocks) ELSE Returns(FormatDock(Nearest(cands)))

(***************************************************************************)
(* The boundary of an operation:  try: ... except Exception as e: ...      *)
(***************************************************************************)
\* the same for  except ValueError as e
CaughtIfValueError(e) == e.type = "ValueError"

ExceptionTypes == {"ConnectError", "JSONDecodeError", "KeyError", "ValueError"}

CaughtByExcept(e) == e.type \in ExceptionTypes

ErrorPrefix(t) ==
    IF t = "find_nearest_bike" THEN "Error finding nearest bike: "
    ELSE "Error finding nearest dock spaces: "

\* <<text returned, exception type raised>> for an outcome of the try body
Boundary(t, outcome) ==
    IF Has(outcome, "ret") THEN <<outcome.ret, "None">>
    ELSE IF CaughtByExcept(outcome.exc) THEN <<<<ErrorPrefix(t), outcome.exc.msg>>, "None">>
    ELSE <<<<>>, outcome.exc.type>>

(***************************************************************************)
(* HTTP.  A response is [status, json_ok, json]; status 0 stands for a     *)
(* request that got no response (client.get raises).  response.json()      *)
(* raises when the text is not JSON and looks at nothing else.             *)
(***************************************************************************)
ConnectError == [type |-> "ConnectError", msg |-> <<"All connection attempts failed">>]

JSONDecodeError == [type |-> "JSONDecodeError", msg |-> <<"Expecting value: line 1 column 1 (char 0)">>]

FeedNotFound(feed_name) == [type |-> "ValueError", msg |-> <<"Feed ", feed_name, " not found">>]

NoResponse == [status |-> 0, json_ok |-> FALSE, json |-> <<>>]

Min(S) == CHOOSE x \in S : \A y \in S : x <= y

\* get_feed_url(feed_name), given what the discovery request comes back with
get_feed_url(feed_name, r) ==
    IF r.status = 0 THEN Raises(ConnectError)
    ELSE IF ~r.json_ok THEN Raises(JSONDecodeError)
    ELSE LET feeds == Get(Get(Get(r.json, "data", <<>>), "en", <<>>), "feeds", <<>>)
             hits  == {i \in 1..Len(feeds) :
                          Has(feeds[i], "name") /\ feeds[i]["name"] = feed_name}
         IN  IF hits = {} THEN Raises(FeedNotFound(feed_name))
             ELSE Returns(Get(feeds[Min(hits)], "url", PyNone))

\* fetch_feed(url), given what the request comes back with
fetch_feed(r) ==
    IF r.status = 0 THEN Raises(ConnectError)
    ELSE IF ~r.json_ok THEN Raises(JSONDecodeError)
    ELSE Returns(r.json)

(***************************************************************************)
(* The feeds each operation needs, in the order it resolves them.          *)
(***************************************************************************)
FeedNames == {"station_information", "station_status", "free_bike_status"}

Needed(t) ==
    IF t = "find_nearest_bike"
    THEN <<"station_information", "station_status", "free_bike_status">>
    ELSE <<"station_information", "station_status">>

NeededSet(t) == {Needed(t)[i] : i \in 1..Len(Needed(t))}

Tools == {"find_nearest_bike", "find_nearest_dock_spaces"}

(***************************************************************************)
(* The documents the upstream may serve.                                   *)
(***************************************************************************)
UrlOf(name) == <<"https://gbfs.baywheels.com/gbfs/2.3/en/", name, ".json">>

Feed(name) == [name |-> name, url |-> UrlOf(name)]

DiscoveryDoc(feeds) == [data |-> [en |-> [feeds |-> feeds]]]

\* a JSON body without the "data" key, as an error page in JSON has
ErrorDoc == [message |-> "Service Unavailable"]

DiscoveryDocs ==
    { DiscoveryDoc(<<Feed("system_information"), Feed("station_information"),
                     Feed("station_status"), Feed("free_bike_status")>>),
      DiscoveryDoc(<<Feed("system_information"), Feed("station_information"),
                     Feed("station_status")>>),
      ErrorDoc }

HttpStatuses == {200, 503}

\* every response carrying one of the documents, or text that is not JSON
Responses(docs) ==
    [status : HttpStatuses, json_ok : {TRUE}, json : docs]
      \cup [status : HttpStatuses, json_ok : {FALSE}, json : {<<>>}]

Point(lat, lon) == [lat |-> lat, lon |-> lon]

Points == {Point(0, 0), Point(1, 2)}

Station(id, name, p) ==
    [station_id |-> id, name |-> <<name>>, lat |-> p.lat, lon |-> p.lon]

InfoDoc(stations) == [data |-> [stations |-> stations]]

StatusDoc(stations) == [data |-> [stations |-> stations]]

BikesDoc(bikes) == [data |-> [bikes |-> bikes]]

Status(id, renting, returning, bikes, docks) ==
    [station_id |-> id, is_renting |-> renting, is_returning |-> returning,
     num_bikes_available |-> bikes, num_docks_available |-> docks]

VType(id, n) == [vehicle_type_id |-> id, count |-> n]

\* a status with its per-type breakdown; the aggregate is the sum of the breakdown
RECURSIVE Total(_)
Total(vta) == IF vta = <<>> THEN 0 ELSE Head(vta)["count"] + Total(Tail(vta))

StatusWithTypes(id, renting, vta) ==
    [station_id |-> id, is_renting |-> renting, is_returning |-> TRUE,
     num_bikes_available |-> Total(vta), num_docks_available |-> 0,
     vehicle_types_available |-> vta]

Bike(id, p, reserved, disabled, vtype) ==
    [bike_id |-> id, lat |-> p.lat, lon |-> p.lon,
     is_reserved |-> reserved, is_disabled |-> disabled, vehicle_type_id |-> vtype]

\* the station_information feed: up to two stations, anywhere; a station_id
\* occurs once in a feed, as GBFS requires
InfoDocs ==
    {InfoDoc(<<>>)}
      \cup {InfoDoc(<<Station("s1", "Alpha", p)>>) : p \in Points}
      \cup {InfoDoc(<<Station("s1", "Alpha", p), Station("s2", "Beta", q)>>) :
               p \in Points, q \in Points}

Breakdowns ==
    { <<VType("1", 1)>>, <<VType("1", 1), VType("2", 1)>>, <<VType("2", 1), VType("2", 1)>> }

\* what station_status may say of one station to a bike query
BikeStatuses(id) ==
    {StatusWithTypes(id, FALSE, <<VType("1", 1), VType("2", 1)>>)}
      \cup {Status(id, TRUE, TRUE, n, 0) : n \in 0..MaxAvail}
      \cup {StatusWithTypes(id, TRUE, vta) : vta \in Breakdowns}

\* what station_status may say of one station to a dock query
DockStatuses(id) ==
    {Status(id, TRUE, FALSE, 0, MaxDocks)}
      \cup {Status(id, TRUE, TRUE, 0, n) : n \in 0..MaxDocks}

\* a status per station, or none for it
Entry(S) == {<<>>} \cup {<<st>> : st \in S}

BikeStatusDocs ==
    {StatusDoc(a \o b) : a \in Entry(BikeStatuses("s1")), b \in Entry(BikeStatuses("s2"))}

DockStatusDocs ==
    {StatusDoc(a \o b) : a \in Entry(DockStatuses("s1")), b \in Entry(DockStatuses("s2"))}

FreeBikes ==
    {Bike("b1", Point(0, 0), f[1], f[2], f[3]) :
       f \in {<<FALSE, FALSE, "1">>, <<FALSE, FALSE, "2">>,
              <<TRUE, FALSE, "2">>, <<FALSE, TRUE, "2">>}}

BikesDocs == {BikesDoc(b) : b \in Entry(FreeBikes)}

sELECTRIC_BIKE == <<"e","l","e","c","t","r","i","c","_","b","i","k","e">>
sCLASSIC_BIKE  == <<"c","l","a","s","s","i","c","_","b","i","k","e">>
sSCOOTER       == <<"s","c","o","o","t","e","r">>
sEBike         == <<"E","B","i","k","e">>

Labels == {PyNone, sELECTRIC_BIKE, sCLASSIC_BIKE, sSCOOTER}

Counts == 0..MaxCount

(***************************************************************************)
(* The state machine of one invocation.  The operation is a coroutine; it  *)
(* is cut at its awaits: one step per get_feed_url, one for the call of    *)
(* asyncio.gather, one per fetch_feed task that ends, one for the          *)
(* synchronous rest (lines 62-135, 159-188).                               *)
(***************************************************************************)
Idle == [state |-> "idle", status |-> 0, json |-> <<>>]

Outstanding == [state |-> "outstanding", status |-> 0, json |-> <<>>]

Ended(r) ==
    IF Has(fetch_feed(r), "ret")
    THEN [state |-> "returned", status |-> r.status, json |-> r.json]
    ELSE [state |-> "raised", status |-> r.status, json |-> <<>>]

\* the documents served for a feed during a whole invocation
FlowStations == <<Station("s1", "Alpha", Point(1, 2)), Station("s2", "Beta", Point(0, 0))>>

FlowDocs(f) ==
    IF f = "station_information" THEN {InfoDoc(FlowStations), ErrorDoc}
    ELSE IF f = "station_status"
    THEN {StatusDoc(<<Status("s1", TRUE, TRUE, 1, 1), Status("s2", TRUE, TRUE, MaxAvail, MaxAvail)>>),
          ErrorDoc}
    ELSE {BikesDoc(<<Bike("b1", Point(0, 0), FALSE, FALSE, "2")>>), ErrorDoc}

FlowLabels == {PyNone, sEBike}

Init ==
    /\ tool \in Tools
    /\ latitude = 0 /\ longitude = 0
    /\ count \in Counts
    /\ bike_type \in (IF tool = "find_nearest_bike" THEN FlowLabels ELSE {PyNone})
    /\ pc = "resolve"
    /\ urls = <<>>
    /\ discovery = <<>>
    /\ fetches = [f \in FeedNames |-> Idle]
    /\ candidates = <<>>
    /\ result = <<>>
    /\ raised = "None"

\* the operation ends with this outcome of its try body
Finish(outcome) ==
    LET b == Boundary(tool, outcome)
    IN  /\ pc' = "done"
        /\ result' = b[1]
        /\ raised' = b[2]

\* station_info_url = await get_feed_url(...), and the two after it
Resolve ==
    /\ pc = "resolve"
    /\ Len(urls) < Len(Needed(tool))
    /\ \E r \in Responses(DiscoveryDocs) \cup {NoResponse} :
         LET outcome == get_feed_url(Needed(tool)[Len(urls) + 1], r)
         IN  /\ discovery' = Append(discovery, r.status)
             /\ IF Has(outcome, "ret")
                THEN /\ urls' = Append(urls, outcome.ret)
                     /\ UNCHANGED <<pc, result, raised>>
                ELSE /\ Finish(outcome)
                     /\ UNCHANGED urls
    /\ UNCHANGED <<args, fetches, candidates>>

\* the same for a gather called once station_information is resolved
FirstResolved == Len(urls) >= 1

\* gather is called after the last get_feed_url has returned
AllResolved == Len(urls) = Len(Needed(tool))

\* asyncio.gather(fetch_feed(...), ...): every fetch is started
Gather ==
    /\ pc = "resolve"
    /\ AllResolved
    /\ pc' = "fetch"
    /\ fetches' = [f \in FeedNames |-> IF f \in NeededSet(tool) THEN Outstanding ELSE Idle]
    /\ UNCHANGED <<args, urls, discovery, candidates, result, raised>>

\* the same for gather(..., return_exceptions=True)
GatherKeepsExceptions(outcome) == FALSE

\* return_exceptions is left False: gather raises what a task raises
GatherRaises(outcome) == Has(outcome, "exc")

\* one fetch_feed task ends; gather hands the first exception to the
\* operation at once and the results once every task has returned
FetchReturn ==
    \E f \in FeedNames : \E r \in Responses(FlowDocs(f)) \cup {NoResponse} :
      /\ fetches[f].state = "outstanding"
      /\ fetches' = [fetches EXCEPT ![f] = Ended(r)]
      /\ IF pc = "fetch" /\ GatherRaises(fetch_feed(r))
         THEN Finish(fetch_feed(r))
         ELSE IF pc = "fetch" /\ \A g \in NeededSet(tool) : fetches'[g].state = "returned"
         THEN pc' = "select" /\ UNCHANGED <<result, raised>>
         ELSE UNCHANGED <<pc, result, raised>>
      /\ UNCHANGED <<args, urls, discovery, candidates>>

\* the rest of the try body of find_nearest_bike
SelectBike ==
    /\ pc = "select"
    /\ tool = "find_nearest_bike"
    /\ Finish(BikeBody(fetches["station_information"].json, fetches["station_status"].json,
                       fetches["free_bike_status"].json,
                       latitude, longitude, count, bike_type))
    /\ candidates' = BikeList(fetches["station_information"].json,
                              fetches["station_status"].json,
                              fetches["free_bike_status"].json,
                              latitude, longitude, count, bike_type)
    /\ UNCHANGED <<args, urls, discovery, fetches>>

\* the rest of the try body of find_nearest_dock_spaces
SelectDock ==
    /\ pc = "select"
    /\ tool = "find_nearest_dock_spaces"
    /\ Finish(DockBody(fetches["station_information"].json, fetches["station_status"].json,
                       latitude, longitude, count))
    /\ candidates' = DockList(fetches["station_information"].json,
                              fetches["station_status"].json,
                              latitude, longitude, count)
    /\ UNCHANGED <<args, urls, discovery, fetches>>

Next == Resolve \/ Gather \/ FetchReturn \/ SelectBike \/ SelectDock

Spec == Init /\ [][Next]_vars

(***************************************************************************)
(* The join/filter/rank pass on its own: every combination of arguments    *)
(* and documents, taken at the point where gather has returned them.       *)
(***************************************************************************)
Fetched(doc) == [state |-> "returned", status |-> 200, json |-> doc]

InitSelect ==
    /\ tool \in Tools
    /\ \E p \in Points : latitude = p.lat /\ longitude = p.lon
    /\ count \in Counts
    /\ bike_type \in (IF tool = "find_nearest_bike" THEN Labels ELSE {PyNone})
    /\ pc = "select"
    /\ urls = [i \in 1..Len(Needed(tool)) |-> UrlOf(Needed(tool)[i])]
    /\ discovery = [i \in 1..Len(Needed(tool)) |-> 200]
    /\ \E info \in InfoDocs :
         IF tool = "find_nearest_bike"
         THEN \E st \in BikeStatusDocs, bikes \in BikesDocs :
                fetches = [f \in FeedNames |->
                             IF f = "station_information" THEN Fetched(info)
                             ELSE IF f = "station_status" THEN Fetched(st)
                             ELSE Fetched(bikes)]
         ELSE \E st \in DockStatusDocs :
                fetches = [f \in FeedNames |->
                             IF f = "station_information" THEN Fetched(info)
                             ELSE IF f = "station_status" THEN Fetched(st)
                             ELSE Idle]
    /\ candidates = <<>>
    /\ result = <<>>
    /\ raised = "None"

NextSelect == SelectBike \/ SelectDock

SpecSelect == InitSelect /\ [][NextSelect]_vars

(***************************************************************************)
(* Vocabulary of the properties.                                           *)
(***************************************************************************)
IsBike == tool = "find_nearest_bike"

IsDock == tool = "find_nearest_dock_spaces"

\* the join/filter/rank pass has run on the documents gather returned
Ran == pc = "done" /\ \A f \in NeededSet(tool) : fetches[f].state = "returned"

\* ... and each document had the keys the pass subscripts
Joined ==
    /\ Ran
    /\ Has(fetches["station_information"].json, "data")
    /\ Has(fetches["station_status"].json, "data")
    /\ IsBike => Has(fetches["free_bike_status"].json, "data")

InfoFeed == fetches["station_information"].json["data"]["stations"]

StatusFeed == fetches["station_status"].json["data"]["stations"]

BikeFeed == fetches["free_bike_status"].json["data"]["bikes"]

InfoIdx == 1..Len(InfoFeed)

CandIdx == 1..Len(candidates)

\* the status records that join station s by identifier
StatusesOf(s) ==
    {StatusFeed[k] : k \in {k \in 1..Len(StatusFeed) :
                               StatusFeed[k]["station_id"] = s["station_id"]}}

IsStationCand(c) == IsDock \/ c["type"] = "Station"

IsFreeBikeCand(c) == IsBike /\ c["type"] = "Free Bike"

\* candidate c was made from station s
FromStation(c, s) ==
    IsStationCand(c) /\ c["name"] = s["name"] /\ c["lat"] = s["lat"] /\ c["lon"] = s["lon"]

\* candidate c was made from free bike b
FromBike(c, b) == IsFreeBikeCand(c) /\ c["name"] = <<"Free Bike (", b["bike_id"], ")">>

IsAnswer == result # <<>> /\ result[1] \in {"Nearest option: ", "Nearest dock with spaces: "}

IsError == result # <<>> /\ result[1] = ErrorPrefix(tool)

\* the answer names candidate c
Names(c) ==
    /\ IsAnswer
    /\ IF IsBike
       THEN /\ result[2] = c["type"] /\ result[4] = c["name"]
            /\ result[6] = Format1f(c["distance"]) /\ result[9] = c["available"]
            /\ result[11] = c["lat"] /\ result[13] = c["lon"]
       ELSE /\ result[2] = c["name"]
            /\ result[4] = Format1f(c["distance"]) /\ result[7] = c["available"]
            /\ result[9] = c["lat"] /\ result[11] = c["lon"]

\* the vehicle type the two labels of the tool description stand for
TypeOfLabel(bt) ==
    IF bt = sELECTRIC_BIKE THEN "2" ELSE IF bt = sCLASSIC_BIKE THEN "1" ELSE "None"

RECURSIVE SumAt(_, _)
SumAt(I, v) ==
    IF I = {} THEN 0
    ELSE LET i == CHOOSE i \in I : TRUE IN v[i]["count"] + SumAt(I \ {i}, v)

\* the bikes of type t that status st offers; every bike when t is "None"
Offered(st, t) ==
    IF t = "None" THEN st["num_bikes_available"]
    ELSE IF ~Has(st, "vehicle_types_available") THEN 0
    ELSE LET v == st["vehicle_types_available"]
         IN  SumAt({i \in 1..Len(v) : v[i]["vehicle_type_id"] = t}, v)

MinDistance(c) == \A j \in CandIdx : c["distance"] <= candidates[j]["distance"]

(***************************************************************************)
(* Properties of the join/filter/rank pass (checked under SpecSelect).     *)
(***************************************************************************)

\* C4: in find_nearest_bike every station in the candidate list has a status
\* joined by station identifier with is_renting true and offers at least
\* count bikes (the aggregate count without a type restriction, the sum of
\* the matching per-type counts with one), and that number is its available
\* count; a station that is not renting or has no status is no candidate
\* and is not the nearest option returned.
C4_StationCandidatesEligible ==
    (Joined /\ IsBike) =>
        /\ \A i \in CandIdx :
             IsStationCand(candidates[i]) =>
               \E k \in InfoIdx : \E st \in StatusesOf(InfoFeed[k]) :
                  /\ FromStation(candidates[i], InfoFeed[k])
                  /\ st["is_renting"] = TRUE
                  /\ Offered(st, TypeOfLabel(bike_type)) >= count
                  /\ candidates[i]["available"] = Offered(st, TypeOfLabel(bike_type))
        /\ \A k \in InfoIdx :
             (\A st \in StatusesOf(InfoFeed[k]) : st["is_renting"] = FALSE) =>
               /\ \A i \in CandIdx : ~FromStation(candidates[i], InfoFeed[k])
               /\ ~(IsAnswer /\ result[2] = "Station" /\ result[4] = InfoFeed[k]["name"])

\* a type-restricted query for two bikes answered with the one station that
\* qualifies, next to a station that has the bikes but is not renting
C4_Witness ==
    /\ Joined /\ IsBike /\ count = 2 /\ bike_type = sELECTRIC_BIKE
    /\ Len(InfoFeed) = 2
    /\ \E st \in StatusesOf(InfoFeed[1]) :
         st["is_renting"] = FALSE /\ st["num_bikes_available"] >= count
    /\ Len(candidates) = 1
    /\ FromStation(candidates[1], InfoFeed[2])
    /\ Names(candidates[1])

\* C5: in find_nearest_bike a free bike that is reserved or disabled is no
\* candidate, no free bike is a candidate unless count is 1, and the nearest
\* option returned is a free bike only if count is 1 and that bike is
\* neither reserved nor disabled.
C5_FreeBikeCandidates ==
    (Joined /\ IsBike) =>
        /\ \A i \in CandIdx : IsFreeBikeCand(candidates[i]) => count = 1
        /\ \A b \in 1..Len(BikeFeed) :
             (BikeFeed[b]["is_reserved"] \/ BikeFeed[b]["is_disabled"]) =>
               \A i \in CandIdx : ~FromBike(candidates[i], BikeFeed[b])
        /\ (IsAnswer /\ result[2] = "Free Bike") =>
             /\ count = 1
             /\ \E b \in 1..Len(BikeFeed) :
                  /\ result[4] = <<"Free Bike (", BikeFeed[b]["bike_id"], ")">>
                  /\ ~BikeFeed[b]["is_reserved"]
                  /\ ~BikeFeed[b]["is_disabled"]

\* a query for one bike answered with a free bike that is nearer than a
\* qualifying station
C5_Witness ==
    /\ Joined /\ IsBike /\ count = 1
    /\ IsAnswer /\ result[2] = "Free Bike"
    /\ \E i \in CandIdx :
         IsStationCand(candidates[i]) /\ candidates[i]["distance"] > 0

\* C6: in find_nearest_dock_spaces a station is a candidate exactly when it
\* has a status joined by station identifier that has is_returning true and
\* num_docks_available >= count; each such station is a candidate once, with
\* that number of docks.
C6_DockCandidatesExact ==
    (Joined /\ IsDock) =>
        /\ \A k \in InfoIdx :
             (\E i \in CandIdx : FromStation(candidates[i], InfoFeed[k]))
               <=> (\E st \in StatusesOf(InfoFeed[k]) :
                      st["is_returning"] = TRUE /\ st["num_docks_available"] >= count)
        /\ \A i \in CandIdx :
             \E k \in InfoIdx : \E st \in StatusesOf(InfoFeed[k]) :
                /\ FromStation(candidates[i], InfoFeed[k])
                /\ candidates[i]["available"] = st["num_docks_available"]
        /\ \A i, j \in CandIdx : candidates[i]["name"] = candidates[j]["name"] => i = j

\* one station not returning, another returning with 3 docks, count 2: only
\* the second is a candidate and it is the one returned
C6_Witness ==
    /\ Joined /\ IsDock /\ count = 2
    /\ Len(InfoFeed) = 2
    /\ \E st \in StatusesOf(InfoFeed[1]) : st["is_returning"] = FALSE
    /\ \E st \in StatusesOf(InfoFeed[2]) :
         st["is_returning"] = TRUE /\ st["num_docks_available"] = 3
    /\ Len(candidates) = 1
    /\ FromStation(candidates[1], InfoFeed[2])
    /\ Names(candidates[1])

\* C7: when the candidate list is not empty the answer names one of its
\* members whose distance is at most that of every candidate; when it is
\* empty the fixed no-match message is returned and nothing is raised.
C7_NearestIsMinimal ==
    Joined =>
        IF candidates = <<>>
        THEN result = (IF IsBike THEN NoBikes ELSE NoDocks) /\ raised = "None"
        ELSE \E i \in CandIdx : Names(candidates[i]) /\ MinDistance(candidates[i])

\* two candidates at different distances, the farther one first in the list,
\* and the answer names the nearer one
C7_Witness ==
    /\ Joined
    /\ Len(candidates) = 2
    /\ candidates[2]["distance"] < candidates[1]["distance"]
    /\ Names(candidates[2])

\* the stations of the feed, by position, that are candidates at the least distance
NearestStations ==
    {k \in InfoIdx : \E i \in CandIdx :
        FromStation(candidates[i], InfoFeed[k]) /\ MinDistance(candidates[i])}

\* C8: when several candidate stations lie at the same, least distance, the
\* answer names the one that comes first in the station_information feed.
C8_FirstStationWinsTie ==
    (Joined /\ NearestStations # {}) =>
        \E i \in CandIdx :
           /\ FromStation(candidates[i], InfoFeed[Min(NearestStations)])
           /\ Names(candidates[i])

\* two stations of different names tie for the least distance
C8_Witness ==
    /\ Joined
    /\ NearestStations = {1, 2}
    /\ \E i \in CandIdx : FromStation(candidates[i], InfoFeed[1]) /\ Names(candidates[i])

\* the candidates are those of a query restricted to vehicle type t ("None":
\* unrestricted)
FilteredBy(t) ==
    /\ \A k \in InfoIdx :
         (\E i \in CandIdx : FromStation(candidates[i], InfoFeed[k]))
           <=> (\E st \in StatusesOf(InfoFeed[k]) :
                  st["is_renting"] = TRUE /\ Offered(st, t) >= count)
    /\ \A k \in InfoIdx : \A i \in CandIdx :
         FromStation(candidates[i], InfoFeed[k]) =>
           \E st \in StatusesOf(InfoFeed[k]) : candidates[i]["available"] = Offered(st, t)
    /\ \A b \in 1..Len(BikeFeed) :
         (\E i \in CandIdx : FromBike(candidates[i], BikeFeed[b]))
           <=> /\ count = 1
               /\ ~BikeFeed[b]["is_reserved"] /\ ~BikeFeed[b]["is_disabled"]
               /\ t = "None" \/ BikeFeed[b]["vehicle_type_id"] = t

\* C9: with the label "electric_bike" only electric-keyed ("2") vehicles are
\* counted at a station and pass as free bikes, with "classic_bike" only
\* classic-keyed ("1") ones, and with an unrecognized label or none the
\* aggregate count is used and no free bike is rejected on its type; a
\* status without a breakdown or without a matching entry counts 0.
C9_TypeFilter ==
    (Joined /\ IsBike) =>
        /\ bike_type = sELECTRIC_BIKE => FilteredBy("2")
        /\ bike_type = sCLASSIC_BIKE => FilteredBy("1")
        /\ bike_type \in {PyNone, sSCOOTER} => FilteredBy("None")

\* an electric query for two bikes: the station with two electric bikes is a
\* candidate, the station with one classic and one electric is not
C9_Witness ==
    /\ Joined /\ IsBike /\ count = 2 /\ bike_type = sELECTRIC_BIKE
    /\ Len(InfoFeed) = 2
    /\ \E st \in StatusesOf(InfoFeed[1]) :
         /\ st["is_renting"] = TRUE /\ st["num_bikes_available"] = 2
         /\ Offered(st, "2") = 1 /\ Offered(st, "1") = 1
    /\ Len(candidates) = 1
    /\ FromStation(candidates[1], InfoFeed[2])
    /\ candidates[1]["available"] = 2

(***************************************************************************)
(* Properties of a whole invocation (checked under Spec).                  *)
(***************************************************************************)

\* a get_feed_url of the invocation raised
ResolveFailed == Len(discovery) > Len(urls)

\* a fetch_feed of the invocation raised
FetchFailed == \E f \in FeedNames : fetches[f].state = "raised"

\* the pass over the documents hit a missing key
JoinFailed == Ran /\ ~Joined

\* C1: no failure of a resolution, of a fetch or of the join/filter/rank pass
\* leaves the operation as an exception: the operation returns a text, and
\* after a failure the text begins with the error prefix of the tool.
C1_AlwaysReturnsText ==
    /\ raised = "None"
    /\ pc = "done" => (IsAnswer \/ IsError \/ result = NoBikes \/ result = NoDocks)
    /\ (ResolveFailed \/ JoinFailed \/ (FetchFailed /\ pc = "done")) =>
         result # <<>> /\ Head(result) = ErrorPrefix(tool)

\* every fetch returned a document, one of them without the "data" key, and
\* the operation returned the KeyError as an error text
C1_Witness ==
    /\ JoinFailed
    /\ raised = "None"
    /\ result = <<ErrorPrefix(tool), <<"'", "data", "'">> >>

\* C2: once one resolution or one fetch of a query has failed the query has
\* failed: it is over and its result is the error message, not an answer or
\* the no-match message; this includes a find_nearest_bike with count > 1
\* whose free_bike_status resolution or fetch is the one that fails.
C2_AnyFailureFailsQuery ==
    (ResolveFailed \/ FetchFailed) =>
        /\ pc = "done"
        /\ IsError
        /\ ~IsAnswer /\ result # NoBikes /\ result # NoDocks

\* find_nearest_bike for two bikes: both station feeds are in, the fetch of
\* free_bike_status fails, and the result is the error message
C2_Witness ==
    /\ IsBike /\ count = 2
    /\ fetches["station_information"].state = "returned"
    /\ fetches["station_status"].state = "returned"
    /\ Has(fetches["station_information"].json, "data")
    /\ Has(fetches["station_status"].json, "data")
    /\ fetches["free_bike_status"].state = "raised"
    /\ pc = "done" /\ IsError

\* a discovery or feed response of the invocation had a non-success status
NonSuccessSeen ==
    \/ \E i \in 1..Len(discovery) : discovery[i] \notin {0, 200}
    \/ \E f \in FeedNames : fetches[f].status \notin {0, 200}

\* C3: a response with a non-success status makes its fetch (or resolution)
\* fail even when its body is well-formed JSON, so the query is over with an
\* error message and ranks nothing from such a body.
C3_NonSuccessStatusFails ==
    NonSuccessSeen => (pc = "done" /\ IsError)

\* C10: the URLs are resolved one after another in the order of the needed
\* feeds, each resolution with a discovery fetch of its own (three for
\* find_nearest_bike, two for find_nearest_dock_spaces); no fetch is issued
\* before every needed URL is resolved; the fetches are all outstanding
\* together; the join/filter/rank pass starts and an answer is made only
\* after every fetch has returned.
C10_PhaseOrder ==
    /\ Len(urls) <= Len(Needed(tool))
    /\ \A i \in 1..Len(urls) : urls[i] = UrlOf(Needed(tool)[i])
    /\ Len(urls) <= Len(discovery) /\ Len(discovery) <= Len(urls) + 1
    /\ (\E f \in FeedNames : fetches[f].state # "idle") =>
         /\ Len(urls) = Len(Needed(tool))
         /\ Len(discovery) = (IF IsBike THEN 3 ELSE 2)
    /\ (pc = "select" \/ IsAnswer \/ candidates # <<>>) =>
         \A f \in NeededSet(tool) : fetches[f].state = "returned"

\* the step that issues a fetch issues all of them
C10_IssuedTogether ==
    [][(\A f \in FeedNames : fetches[f].state = "idle")
         /\ (\E f \in FeedNames : fetches'[f].state # "idle")
       => \A f \in NeededSet(tool) : fetches'[f].state = "outstanding"]_vars

C10_QueryPhases == []C10_PhaseOrder /\ C10_IssuedTogether

\* find_nearest_bike after three discovery fetches, its three feed fetches
\* outstanding at once
C10_Witness ==
    /\ IsBike /\ pc = "fetch"
    /\ Len(discovery) = 3 /\ Len(urls) = 3
    /\ \A f \in FeedNames : fetches[f].state = "outstanding"

====
